---- MODULE Spec2Model ----
(***************************************************************************)
(* A model of pygxi's DataStream (src/src/pygxi/DataStream.py): the        *)
(* Python object that wraps a camera stream handle, forwards each          *)
(* operation to the vendor's native library and keeps a map from buffer    *)
(* identifiers to frame-buffer pointers.                                   *)
(*                                                                         *)
(* The native library is opaque: every native call answers with a status   *)
(* chosen nondeterministically, and a successful gx_dq_buf hands back any  *)
(* pointer to a frame buffer carrying any buffer identifier.               *)
(***************************************************************************)
EXTENDS Integers, Sequences, FiniteSets, TLC

(***************************************************************************)
(* Bounds of the model.                                                    *)
(***************************************************************************)
\* Buffer identifiers the native library hands out are 0..MaxBufId.
MaxBufId == 1
\* Frame-buffer pointers the native library hands out are 1..NumPtrs.
NumPtrs == 2

BufIds == 0..MaxBufId
Ptrs == 1..NumPtrs

(***************************************************************************)
(* Python integers.  The values that matter lie around 2^32 and 2^64, so   *)
(* an integer is kept as a sign and a magnitude of five 16-bit limbs, most *)
(* significant first; comparison is the integers' own order.               *)
(***************************************************************************)
LimbMax == 2^16 - 1

PyInt(neg, mag) == [type |-> "int", val |-> <<neg, mag>>]

RECURSIVE MagLt(_, _)
MagLt(a, b) ==
    IF a = <<>> THEN FALSE
    ELSE IF Head(a) # Head(b) THEN Head(a) < Head(b)
    ELSE MagLt(Tail(a), Tail(b))

\* x < y on Python ints (zero is never negative).
IntLt(x, y) ==
    LET xn == x.val[1]  yn == y.val[1]
        xm == x.val[2]  ym == y.val[2]
    IN  IF xn /\ ~yn THEN TRUE
        ELSE IF ~xn /\ yn THEN FALSE
        ELSE IF xn THEN MagLt(ym, xm)
        ELSE MagLt(xm, ym)

IntGt(x, y) == IntLt(y, x)

\* gxidef.UNSIGNED_INT_MAX = 0xFFFFFFFF
UNSIGNED_INT_MAX == PyInt(FALSE, <<0, 0, 0, LimbMax, LimbMax>>)
\* gxidef.UNSIGNED_LONG_LONG_MAX = 0xFFFFFFFFFFFFFFFF
UNSIGNED_LONG_LONG_MAX == PyInt(FALSE, <<0, LimbMax, LimbMax, LimbMax, LimbMax>>)

IntZero == PyInt(FALSE, <<0, 0, 0, 0, 0>>)
IntOne == PyInt(FALSE, <<0, 0, 0, 0, 1>>)
IntMinusOne == PyInt(TRUE, <<0, 0, 0, 0, 1>>)
\* 1000, the default timeout of get_image and dq_buf
IntDefaultTimeout == PyInt(FALSE, <<0, 0, 0, 0, 1000>>)
\* 0x100000000
IntTwoTo32 == PyInt(FALSE, <<0, 0, 1, 0, 0>>)
\* 0x10000000000000000
IntTwoTo64 == PyInt(FALSE, <<1, 0, 0, 0, 0>>)


(***************************************************************************)
(* Other Python objects that are passed in or handed back.                 *)
(***************************************************************************)
None == [type |-> "NoneType", val |-> <<>>]
PyFloat == [type |-> "float", val |-> <<>>]
\* bool is a subclass of int: True compares as 1
PyTrue == [type |-> "bool", val |-> IntOne.val]
PyFunction(name) == [type |-> "function", val |-> <<name>>]
\* a RawImage whose frame_data.buf_id is b
RawImage(b) == [type |-> "RawImage", val |-> <<b>>]
\* the RawImage get_image returns: frame data filled by the native library
RawImageOfFrame == [type |-> "RawImage", val |-> <<>>]

\* isinstance(obj, int)
IsInt(obj) == obj.type \in {"int", "bool"}
\* isinstance(obj, RawImage)
IsRawImage(obj) == obj.type = "RawImage"
\* isinstance(obj, types.FunctionType)
IsFunction(obj) == obj.type = "function"
\* bool(obj) for the objects __py_capture_callback holds: None or a function
Truthy(obj) == obj.type # "NoneType"

\* The arguments the operations are called with.
TimeoutInputs ==
    { IntMinusOne, IntZero, IntDefaultTimeout, UNSIGNED_INT_MAX, IntTwoTo32,
      PyTrue, PyFloat }
BufNumInputs ==
    { IntMinusOne, IntZero, IntOne, UNSIGNED_INT_MAX, IntTwoTo32,
      UNSIGNED_LONG_LONG_MAX, IntTwoTo64, PyFloat }
ImageInputs == {RawImage(b) : b \in BufIds} \cup {None}
CallbackInputs == {PyFunction("f"), PyFunction("g"), None}

(***************************************************************************)
(* The native library's answers.                                           *)
(***************************************************************************)
\* gx.GxStatusList: SUCCESS, TIMEOUT, and ERROR for every other status.
Statuses == {"SUCCESS", "TIMEOUT", "ERROR"}

\* One call into the native library: the function, its argument, its status.
NativeCall(fn, arg, status) == [fn |-> fn, arg |-> arg, status |-> status]

\* The payload sizes gx_get_payload_size may report.
PayloadSizes == {IntZero, IntDefaultTimeout}

\* status.check_return_status: raises unless the status is SUCCESS.
check_return_status(status) == status # "SUCCESS"

(***************************************************************************)
(* State.                                                                  *)
(***************************************************************************)
VARIABLES
    py_capture_callback,   \* self.__py_capture_callback: None or a function
    acquisition_flag,      \* self.acquisition_flag
    frame_buf_map,         \* self.__frame_buf_map: buffer id -> pointer
    last,                  \* the most recent call: operation, argument, outcome
    outstanding            \* history: per buffer id, the pointer the most
                           \* recent successful dq_buf received for it, or
                           \* NullPtr when there was none or a successful
                           \* q_buf of that buffer id has happened since

vars == <<py_capture_callback, acquisition_flag, frame_buf_map, last,
          outstanding>>

\* The null pointer ctypes.POINTER(gx.GxFrameBuffer)() makes: none of Ptrs.
NullPtr == 0

\* How a call ends.
Return(value, native) ==
    [outcome |-> "return", value |-> value, exc |-> "", native |-> native]
Raise(exc, native) ==
    [outcome |-> "raise", value |-> None, exc |-> exc, native |-> native]

Called(op, arg, end) ==
    [op |-> op, arg |-> arg, outcome |-> end.outcome, value |-> end.value,
     exc |-> end.exc, native |-> end.native]

\* What a call leaves behind: how it ended, and the two private fields.
Ended(end, map, cb) == [end |-> end, map |-> map, cb |-> cb]

\* dict operations on self.__frame_buf_map
EmptyMap == [k \in {} |-> 0]
MapSet(m, k, v) == [x \in DOMAIN m \cup {k} |-> IF x = k THEN v ELSE m[x]]
MapPop(m, k) == [x \in DOMAIN m \ {k} |-> m[x]]

\* DataStream.__init__
Init ==
    /\ py_capture_callback = None
    /\ acquisition_flag = FALSE
    /\ frame_buf_map = EmptyMap
    /\ last = Called("__init__", None, Return(None, <<>>))
    /\ outstanding = [b \in BufIds |-> NullPtr]

(***************************************************************************)
(* The operations.  Each <op>_body computes what the method does from the  *)
(* object's fields, its argument and the native library's answer; the      *)
(* action <op> draws the argument and the answer and records the call.     *)
(***************************************************************************)

\* DataStream.get_payload_size
get_payload_size_body(status, size) ==
    LET call == NativeCall("gx_get_payload_size", None, status)
    IN  IF check_return_status(status)
        THEN Ended(Raise("StatusError", <<call>>), frame_buf_map, py_capture_callback)
        ELSE Ended(Return(size, <<call>>), frame_buf_map, py_capture_callback)

\* DataStream.get_image
get_image_body(timeout, status) ==
    IF ~IsInt(timeout)
    THEN Ended(Raise("ParameterTypeError", <<>>), frame_buf_map, py_capture_callback)
    ELSE IF IntLt(timeout, IntZero) \/ IntGt(timeout, UNSIGNED_INT_MAX)
    THEN Ended(Return(None, <<>>), frame_buf_map, py_capture_callback)
    ELSE IF acquisition_flag = FALSE
    THEN Ended(Return(None, <<>>), frame_buf_map, py_capture_callback)
    ELSE LET call == NativeCall("gx_get_image", timeout, status)
         IN  IF status = "SUCCESS"
             THEN Ended(Return(RawImageOfFrame, <<call>>), frame_buf_map, py_capture_callback)
             ELSE IF status = "TIMEOUT"
             THEN Ended(Return(None, <<call>>), frame_buf_map, py_capture_callback)
             ELSE IF check_return_status(status)
             THEN Ended(Raise("StatusError", <<call>>), frame_buf_map, py_capture_callback)
             ELSE Ended(Return(None, <<call>>), frame_buf_map, py_capture_callback)

\* dq_buf with its timeout checked against the 64-bit maximum, the bound
\* set_acquisition_buffer_number uses.
dq_buf_body_wide_timeout(timeout, status, ptr, buf_id) ==
    IF ~IsInt(timeout)
    THEN Ended(Raise("ParameterTypeError", <<>>), frame_buf_map, py_capture_callback)
    ELSE IF IntLt(timeout, IntZero) \/ IntGt(timeout, UNSIGNED_LONG_LONG_MAX)
    THEN Ended(Return(None, <<>>), frame_buf_map, py_capture_callback)
    ELSE IF ~Truthy(py_capture_callback)
    THEN Ended(Raise("InvalidCallError", <<>>), frame_buf_map, py_capture_callback)
    ELSE IF ~acquisition_flag
    THEN Ended(Return(None, <<>>), frame_buf_map, py_capture_callback)
    ELSE LET call == NativeCall("gx_dq_buf", timeout, status)
         IN  IF status = "SUCCESS"
             THEN Ended(Return(RawImage(buf_id), <<call>>),
                        MapSet(frame_buf_map, buf_id, ptr), py_capture_callback)
             ELSE IF status = "TIMEOUT"
             THEN Ended(Return(None, <<call>>), frame_buf_map, py_capture_callback)
             ELSE IF check_return_status(status)
             THEN Ended(Raise("StatusError", <<call>>), frame_buf_map, py_capture_callback)
             ELSE Ended(Return(None, <<call>>), frame_buf_map, py_capture_callback)

\* DataStream.dq_buf; on success the native library stores ptr, a pointer to
\* a frame buffer whose buf_id is buf_id.
dq_buf_body(timeout, status, ptr, buf_id) ==
    IF ~IsInt(timeout)
    THEN Ended(Raise("ParameterTypeError", <<>>), frame_buf_map, py_capture_callback)
    ELSE IF IntLt(timeout, IntZero) \/ IntGt(timeout, UNSIGNED_INT_MAX)
    THEN Ended(Return(None, <<>>), frame_buf_map, py_capture_callback)
    ELSE IF ~Truthy(py_capture_callback)
    THEN Ended(Raise("InvalidCallError", <<>>), frame_buf_map, py_capture_callback)
    ELSE IF ~acquisition_flag
    THEN Ended(Return(None, <<>>), frame_buf_map, py_capture_callback)
    ELSE LET call == NativeCall("gx_dq_buf", timeout, status)
         IN  IF status = "SUCCESS"
             THEN Ended(Return(RawImage(buf_id), <<call>>),
                        MapSet(frame_buf_map, buf_id, ptr), py_capture_callback)
             ELSE IF status = "TIMEOUT"
             THEN Ended(Return(None, <<call>>), frame_buf_map, py_capture_callback)
             ELSE IF check_return_status(status)
             THEN Ended(Raise("StatusError", <<call>>), frame_buf_map, py_capture_callback)
             ELSE Ended(Return(None, <<call>>), frame_buf_map, py_capture_callback)

\* DataStream.q_buf
q_buf_body(image, status) ==
    IF ~IsRawImage(image)
    THEN Ended(Raise("ParameterTypeError", <<>>), frame_buf_map, py_capture_callback)
    ELSE IF acquisition_flag = FALSE
    THEN Ended(Return(None, <<>>), frame_buf_map, py_capture_callback)
    ELSE IF ~Truthy(py_capture_callback)
    THEN Ended(Raise("InvalidCallError", <<>>), frame_buf_map, py_capture_callback)
    ELSE LET buf_id == image.val[1]
         IN  IF buf_id \notin DOMAIN frame_buf_map      \* KeyError
             THEN Ended(Return(None, <<>>), frame_buf_map, py_capture_callback)
             ELSE LET ptr_frame_buffer == frame_buf_map[buf_id]
                      call == NativeCall("gx_q_buf", ptr_frame_buffer, status)
                  IN  IF check_return_status(status)
                      THEN Ended(Raise("StatusError", <<call>>),
                                 frame_buf_map, py_capture_callback)
                      ELSE Ended(Return(None, <<call>>),
                                 MapPop(frame_buf_map, buf_id), py_capture_callback)

\* flush_queue that drops the status instead of checking it.
flush_queue_body_unchecked(status) ==
    LET call == NativeCall("gx_flush_queue", None, status)
    IN  Ended(Return(None, <<call>>), frame_buf_map, py_capture_callback)

\* DataStream.flush_queue
flush_queue_body(status) ==
    LET call == NativeCall("gx_flush_queue", None, status)
    IN  IF check_return_status(status)
        THEN Ended(Raise("StatusError", <<call>>), frame_buf_map, py_capture_callback)
        ELSE Ended(Return(None, <<call>>), frame_buf_map, py_capture_callback)

\* DataStream.set_acquisition_buffer_number
set_acquisition_buffer_number_body(buf_num, status) ==
    IF ~IsInt(buf_num)
    THEN Ended(Raise("ParameterTypeError", <<>>), frame_buf_map, py_capture_callback)
    ELSE IF IntLt(buf_num, IntOne) \/ IntGt(buf_num, UNSIGNED_LONG_LONG_MAX)
    THEN Ended(Return(None, <<>>), frame_buf_map, py_capture_callback)
    ELSE LET call == NativeCall("gx_set_acquisition_buffer_number", buf_num, status)
         IN  IF check_return_status(status)
             THEN Ended(Raise("StatusError", <<call>>), frame_buf_map, py_capture_callback)
             ELSE Ended(Return(None, <<call>>), frame_buf_map, py_capture_callback)

\* DataStream.register_capture_callback
register_capture_callback_body(callback_func, status) ==
    IF ~IsFunction(callback_func)
    THEN Ended(Raise("ParameterTypeError", <<>>), frame_buf_map, py_capture_callback)
    ELSE LET call == NativeCall("gx_register_capture_callback", None, status)
         IN  IF check_return_status(status)
             THEN Ended(Raise("StatusError", <<call>>), frame_buf_map, py_capture_callback)
             ELSE Ended(Return(None, <<call>>), frame_buf_map, callback_func)

\* DataStream.unregister_capture_callback
unregister_capture_callback_body(status) ==
    LET call == NativeCall("gx_unregister_capture_callback", None, status)
    IN  IF check_return_status(status)
        THEN Ended(Raise("StatusError", <<call>>), frame_buf_map, py_capture_callback)
        ELSE Ended(Return(None, <<call>>), frame_buf_map, None)

\* A call of operation op with argument arg that ran as r.
Record(op, arg, r) ==
    /\ last' = Called(op, arg, r.end)
    /\ frame_buf_map' = r.map
    /\ py_capture_callback' = r.cb

\* The native library answers only a call that reaches it: whether a method
\* makes its native call does not depend on the answer, so the method is
\* first run against SUCCESS to see whether it calls at all.
StatusAnswers(probe) ==
    IF probe.end.native # <<>> THEN Statuses ELSE {"SUCCESS"}
\* gx_dq_buf stores a frame-buffer pointer only when it succeeds.
PtrAnswers(probe, status) ==
    IF probe.end.native # <<>> /\ status = "SUCCESS"
    THEN Ptrs \X BufIds
    ELSE {<<CHOOSE p \in Ptrs : TRUE, CHOOSE b \in BufIds : TRUE>>}
\* gx_get_payload_size stores a payload size only when it succeeds.
SizeAnswers(status) ==
    IF status = "SUCCESS" THEN PayloadSizes ELSE {IntZero}

\* Whether the call that ran as r got SUCCESS from the native function fn.
Succeeded(r, fn) ==
    /\ Len(r.end.native) = 1
    /\ r.end.native[1].fn = fn
    /\ r.end.native[1].status = "SUCCESS"

get_payload_size ==
    \E status \in Statuses :
      \E size \in SizeAnswers(status) :
        /\ Record("get_payload_size", None, get_payload_size_body(status, size))
        /\ UNCHANGED <<acquisition_flag, outstanding>>

get_image ==
    \E timeout \in TimeoutInputs :
      \E status \in StatusAnswers(get_image_body(timeout, "SUCCESS")) :
        /\ Record("get_image", timeout, get_image_body(timeout, status))
        /\ UNCHANGED <<acquisition_flag, outstanding>>

dq_buf ==
    \E timeout \in TimeoutInputs :
      LET probe == dq_buf_body(timeout, "SUCCESS",
                               CHOOSE p \in Ptrs : TRUE, CHOOSE b \in BufIds : TRUE)
      IN
      \E status \in StatusAnswers(probe) :
      \E answer \in PtrAnswers(probe, status) :
        LET ptr == answer[1]
            buf_id == answer[2]
            r == dq_buf_body(timeout, status, ptr, buf_id)
        IN  /\ Record("dq_buf", timeout, r)
            /\ IF Succeeded(r, "gx_dq_buf")
               THEN outstanding' = [outstanding EXCEPT ![buf_id] = ptr]
               ELSE UNCHANGED outstanding
            /\ UNCHANGED acquisition_flag

q_buf ==
    \E image \in ImageInputs :
      \E status \in StatusAnswers(q_buf_body(image, "SUCCESS")) :
        LET r == q_buf_body(image, status)
        IN  /\ Record("q_buf", image, r)
            /\ IF Succeeded(r, "gx_q_buf")
               THEN outstanding' = [outstanding EXCEPT ![image.val[1]] = NullPtr]
               ELSE UNCHANGED outstanding
            /\ UNCHANGED acquisition_flag

flush_queue ==
    \E status \in Statuses :
        /\ Record("flush_queue", None, flush_queue_body(status))
        /\ UNCHANGED <<acquisition_flag, outstanding>>

\* DataStream.set_acquisition_flag
set_acquisition_flag ==
    \E flag \in BOOLEAN :
        /\ acquisition_flag' = flag
        /\ last' = Called("set_acquisition_flag", None, Return(None, <<>>))
        /\ UNCHANGED <<py_capture_callback, frame_buf_map, outstanding>>

set_acquisition_buffer_number ==
    \E buf_num \in BufNumInputs :
      \E status \in StatusAnswers(
                      set_acquisition_buffer_number_body(buf_num, "SUCCESS")) :
        /\ Record("set_acquisition_buffer_number", buf_num,
                  set_acquisition_buffer_number_body(buf_num, status))
        /\ UNCHANGED <<acquisition_flag, outstanding>>

register_capture_callback ==
    \E callback_func \in CallbackInputs :
      \E status \in StatusAnswers(
                      register_capture_callback_body(callback_func, "SUCCESS")) :
        /\ Record("register_capture_callback", callback_func,
                  register_capture_callback_body(callback_func, status))
        /\ UNCHANGED <<acquisition_flag, outstanding>>

unregister_capture_callback ==
    \E status \in Statuses :
        /\ Record("unregister_capture_callback", None,
                  unregister_capture_callback_body(status))
        /\ UNCHANGED <<acquisition_flag, outstanding>>

Next ==
    \/ get_payload_size
    \/ get_image
    \/ dq_buf
    \/ q_buf
    \/ flush_queue
    \/ set_acquisition_flag
    \/ set_acquisition_buffer_number
    \/ register_capture_callback
    \/ unregister_capture_callback

Spec == Init /\ [][Next]_vars

(***************************************************************************)
(* Properties.                                                             *)
(***************************************************************************)
PublicOps ==
    {"get_payload_size", "get_image", "dq_buf", "q_buf", "flush_queue",
     "set_acquisition_buffer_number", "register_capture_callback",
     "unregister_capture_callback"}

\* 0xFFFFFFFF, as the properties below state it
Hex_FFFFFFFF == PyInt(FALSE, <<0, 0, 0, LimbMax, LimbMax>>)

\* C1, as stated: every call of a public operation makes its native call,
\* and every non-success status the library returns ends the call with a
\* raised error.
C1_AlwaysDelegatesAndRaises ==
    last.op \in PublicOps =>
        /\ Len(last.native) = 1
        /\ last.native[1].status # "SUCCESS" => last.outcome = "raise"

\* C1, amended: every call of a public operation makes at most one native
\* call.  A call that makes none stopped at one of its guards: it raised
\* ParameterTypeError or InvalidCallError, or returned None.  A call whose
\* native call did not succeed raises the status's error, except that
\* get_image and dq_buf return None on TIMEOUT; nothing but None is returned
\* without a successful native call.  get_payload_size, flush_queue and
\* unregister_capture_callback have no guards and always make their call.
C1_DelegatesOrStopsAtGuard ==
    last.op \in PublicOps =>
        /\ Len(last.native) <= 1
        /\ last.op \in {"get_payload_size", "flush_queue",
                        "unregister_capture_callback"}
               => Len(last.native) = 1
        /\ Len(last.native) = 0 =>
               \/ /\ last.outcome = "raise"
                  /\ last.exc \in {"ParameterTypeError", "InvalidCallError"}
               \/ /\ last.outcome = "return"
                  /\ last.value = None
        /\ (Len(last.native) = 1 /\ last.native[1].status # "SUCCESS") =>
               \/ /\ last.outcome = "raise"
                  /\ last.exc = "StatusError"
               \/ /\ last.native[1].status = "TIMEOUT"
                  /\ last.op \in {"get_image", "dq_buf"}
                  /\ last.outcome = "return"
                  /\ last.value = None
        /\ (Len(last.native) = 1 /\ last.native[1].status = "SUCCESS") =>
               last.outcome = "return"

\* C1's case: a native call came back with an error status and the call
\* raised it.
C1_Witness ==
    /\ last.op = "flush_queue"
    /\ Len(last.native) = 1
    /\ last.native[1].status = "ERROR"
    /\ last.outcome = "raise"
    /\ last.exc = "StatusError"

\* C2: a buffer handed out by dq_buf can always be located when it is
\* queued back.  Whenever q_buf is called with an image of buffer id b, b
\* having been handed out by a successful dq_buf and not successfully queued
\* back since, with acquisition on and buffer mode permitted (no capture
\* callback registered), the map holds an entry for b and gx_q_buf is called
\* with exactly the pointer the most recent successful dq_buf received for b.
C2_BufferLocated ==
    [][\A b \in BufIds :
          ( /\ last'.op = "q_buf"
            /\ last'.arg = RawImage(b)
            /\ outstanding[b] # NullPtr
            /\ acquisition_flag
            /\ ~Truthy(py_capture_callback) )
          => /\ b \in DOMAIN frame_buf_map
             /\ Len(last'.native) = 1
             /\ last'.native[1].fn = "gx_q_buf"
             /\ last'.native[1].arg = outstanding[b]
      ]_vars

\* The map itself is kept right: it holds exactly the buffers handed out
\* and not yet successfully queued back, each with the pointer the most
\* recent successful dq_buf received for it.
FrameBufMapTracksOutstanding ==
    /\ DOMAIN frame_buf_map = {b \in BufIds : outstanding[b] # NullPtr}
    /\ \A b \in DOMAIN frame_buf_map : frame_buf_map[b] = outstanding[b]

\* C3: dq_buf and q_buf raise InvalidCallError exactly when a capture
\* callback is registered, and never when none is.
C3_InvalidCallIffRegistered ==
    last.op \in {"dq_buf", "q_buf"} =>
        ((last.exc = "InvalidCallError") <=> Truthy(py_capture_callback))

\* C4: set_acquisition_buffer_number calls the native library with buf_num
\* when buf_num is in [1, 0xFFFFFFFF]; for every other integer it makes no
\* native call and returns without error.
C4_BufNumRange ==
    (last.op = "set_acquisition_buffer_number" /\ IsInt(last.arg)) =>
        IF ~IntLt(last.arg, IntOne) /\ ~IntGt(last.arg, Hex_FFFFFFFF)
        THEN /\ Len(last.native) = 1
             /\ last.native[1].arg = last.arg
        ELSE /\ last.native = <<>>
             /\ last.outcome = "return"

\* C5: in get_image and dq_buf an integer timeout outside [0, 0xFFFFFFFF]
\* never reaches the native library: in every state the call returns None,
\* raises nothing, makes no native call and leaves the frame-buffer map, the
\* acquisition flag and the recorded callback as they were.  A non-integer
\* timeout raises ParameterTypeError whatever the state, with no native
\* call.
C5_TimeoutOutOfRange ==
    [][last'.op \in {"get_image", "dq_buf"} =>
          /\ ~IsInt(last'.arg) =>
                /\ last'.outcome = "raise"
                /\ last'.exc = "ParameterTypeError"
                /\ last'.native = <<>>
                /\ UNCHANGED <<frame_buf_map, acquisition_flag, py_capture_callback>>
          /\ ( /\ IsInt(last'.arg)
               /\ IntLt(last'.arg, IntZero) \/ IntGt(last'.arg, Hex_FFFFFFFF) )
             => /\ last'.outcome = "return"
                /\ last'.value = None
                /\ last'.native = <<>>
                /\ UNCHANGED <<frame_buf_map, acquisition_flag, py_capture_callback>>
      ]_vars

\* C5's case: dq_buf was called with timeout 0x100000000 on a stream whose
\* acquisition is on, with a callback recorded and a buffer in the map, and
\* returned None without a native call.
C5_Witness ==
    /\ last.op = "dq_buf"
    /\ last.arg = IntTwoTo32
    /\ last.outcome = "return"
    /\ last.native = <<>>
    /\ acquisition_flag
    /\ Truthy(py_capture_callback)
    /\ DOMAIN frame_buf_map # {}

====
